---- MODULE Spec2Model ----
(***************************************************************************)
(* Model of the Vertex gateway: the adapter VertexClaudeClient (session,   *)
(* tools, model) and the /v1/messages handler of src/app.py, with the      *)
(* streaming generator generate() stepped one consumer pull at a time.     *)
(***************************************************************************)
EXTENDS Naturals, Sequences, FiniteSets, TLC

(* ------------------------------ bounds -------------------------------- *)

\* Longest upstream fragment sequence a stream delivers.
MaxFrags == 2
\* Number of refresh_token calls explored.
MaxRefresh == 1

\* Inbound requests handled concurrently.
Reqs == {"r1", "r2"}

(* ------------------------- configuration (app.py) --------------------- *)

MODEL == "claude-3-7-sonnet@20250219"
HAIKU_MODEL == "claude-3-5-haiku@20241022"

\* The static alias table, a dict from alias to upstream identifier.
SUPPORTED_MODELS ==
    [a \in {"claude-3-sonnet-20240229", "claude-3-7-sonnet-20250219",
            "claude-3-haiku-20240307", "claude-3-5-haiku-20241022"} |->
        IF a \in {"claude-3-sonnet-20240229", "claude-3-7-sonnet-20250219"}
        THEN MODEL ELSE HAIKU_MODEL]

\* Python's None where a string is expected (dict.get on a missing key).
None == "<None>"

\* Default of the adapter's max_tokens parameter.
DefaultMaxTokens == 1024

(* ------------------------- dicts (Python dict) ------------------------ *)

EmptyDict == [k \in {} |-> 0]

\* d.get(k, default)
Get(d, k, default) == IF k \in DOMAIN d THEN d[k] ELSE default

\* {k: v for k, v in d.items() if k not in ks}
Without(d, ks) == [k \in DOMAIN d \ ks |-> d[k]]

\* {**base, **over}: keys of over win.
Merge(base, over) == over @@ base

(* ------------------------- request bodies ----------------------------- *)

\* The value of a message's "content": a str, a list of parts, or anything else.
CStr(s) == [kind |-> "str", str |-> s, parts |-> <<>>]
CList(ps) == [kind |-> "list", str |-> "", parts |-> ps]
COther == [kind |-> "other", str |-> "", parts |-> <<>>]
\* What first_message.get('content') gives when the key is missing.
CNone == [kind |-> "none", str |-> "", parts |-> <<>>]

TextPart(t) == [type |-> "text", text |-> t]
ImagePart == [type |-> "image", source |-> "data"]
\* A part tagged "text" that has no "text" key.
BrokenTextPart == [type |-> "text"]

Msg(c) == [role |-> "user", content |-> c]
\* A message with no "content" key.
MsgNoContent == [role |-> "user"]

\* An inbound request body: a JSON object (a dict), the JSON value null,
\* a body sent as JSON that does not parse (an empty one included), or no
\* JSON body at all (no JSON content type).
Obj(d) == [json |-> "object", obj |-> d]
NullBody == [json |-> "null", obj |-> EmptyDict]
UnparseableBody == [json |-> "unparseable", obj |-> EmptyDict]
NoBody == [json |-> "absent", obj |-> EmptyDict]

Hi == <<Msg(CStr("hi"))>>

\* The bodies explored: every validation outcome, every alias, both content
\* shapes, streaming and not, with and without passthrough parameters.
Bodies ==
    {NoBody, NullBody, UnparseableBody, Obj(EmptyDict)}
    \cup {Obj([model |-> m, messages |-> Hi]) :
            m \in DOMAIN SUPPORTED_MODELS \cup {"gpt-4"}}
    \cup {Obj([messages |-> Hi]),
          Obj([model |-> "gpt-4"]),
          Obj([model |-> "gpt-4", messages |-> <<>>]),
          Obj([model |-> "gpt-4", messages |-> <<MsgNoContent>>]),
          Obj([model |-> "gpt-4", messages |-> <<Msg(COther)>>]),
          Obj([model |-> "gpt-4", stream |-> TRUE, messages |-> <<>>]),
          Obj([model |-> "gpt-4", stream |-> TRUE, messages |-> <<Msg(COther)>>]),
          Obj([model |-> "gpt-4", messages |-> <<Msg(COther), Msg(CStr("hi"))>>]),
          Obj([model |-> "gpt-4", messages |-> <<Msg(CList(<<>>))>>]),
          Obj([model |-> "gpt-4",
               messages |-> <<Msg(CList(<<TextPart("hello"), ImagePart>>))>>]),
          Obj([model |-> "gpt-4",
               messages |-> <<Msg(CList(<<TextPart("a"), TextPart("b")>>))>>]),
          Obj([model |-> "gpt-4",
               messages |-> <<Msg(CList(<<ImagePart, TextPart("a"), ImagePart,
                                          TextPart("b")>>))>>]),
          Obj([model |-> "gpt-4",
               messages |-> <<Msg(CList(<<TextPart("a"), BrokenTextPart>>))>>]),
          Obj([model |-> "gpt-4", messages |-> <<Msg(CStr("hi")), Msg(CStr("more"))>>,
               system |-> "be brief", max_tokens |-> 64, temperature |-> 1]),
          Obj([model |-> "gpt-4", messages |-> Hi,
               system |-> "be brief", max_tokens |-> 64, temperature |-> 1]),
          Obj([model |-> "gpt-4", messages |-> Hi, prompt |-> "x"]),
          Obj([model |-> "gpt-4", stream |-> TRUE, messages |-> Hi, prompt |-> "x"]),
          Obj([model |-> "claude-3-haiku-20240307", stream |-> TRUE,
               system |-> "be brief", temperature |-> 1,
               messages |-> <<Msg(CList(<<TextPart("a"), ImagePart, TextPart("b")>>)),
                              Msg(CStr("more"))>>])}

(* ------------------ create_message: the pure steps -------------------- *)

\* ResolveModel with the table looked up without a default.
ResolveModelNoDefault(data) ==
    LET requested_model == Get(data, "model", None)
    IN  IF requested_model \in DOMAIN SUPPORTED_MODELS
        THEN [model |-> SUPPORTED_MODELS[requested_model], warned |-> FALSE]
        ELSE [model |-> None, warned |-> TRUE]

\* Lines 187-193: the upstream identifier for data.get('model'), and whether
\* the warning is logged.
ResolveModel(data) ==
    LET requested_model == Get(data, "model", None)
    IN  IF requested_model \in DOMAIN SUPPORTED_MODELS
        THEN [model |-> SUPPORTED_MODELS[requested_model], warned |-> FALSE]
        ELSE [model |-> MODEL, warned |-> TRUE]

\* item.get('type') == 'text'
IsTextPart(item) == Get(item, "type", None) = "text"

\* Join with the separator put after every text.
RECURSIVE JoinTrailing(_)
JoinTrailing(texts) ==
    IF Len(texts) = 0 THEN "" ELSE texts[1] \o " " \o JoinTrailing(Tail(texts))

\* ' '.join(texts)
RECURSIVE Join(_)
Join(texts) ==
    IF Len(texts) = 0 THEN ""
    ELSE IF Len(texts) = 1 THEN texts[1]
    ELSE texts[1] \o " " \o Join(Tail(texts))

\* Lines 203-210: the prompt for the first message. kind is "ok", "invalid"
\* (the 400 of line 210) or "raise" (item['text'] on a part without it).
NormalizeContent(first_message) ==
    LET c == Get(first_message, "content", CNone)
        textParts == SelectSeq(c.parts, IsTextPart)
    IN  IF c.kind = "str" THEN [kind |-> "ok", content |-> c.str]
        ELSE IF c.kind = "list"
        THEN IF \E i \in 1..Len(textParts) : "text" \notin DOMAIN textParts[i]
             THEN [kind |-> "raise", content |-> "'text'"]
             ELSE [kind |-> "ok",
                   content |-> Join([i \in 1..Len(textParts) |-> textParts[i].text])]
        ELSE [kind |-> "invalid", content |-> ""]

\* Line 213: the passthrough parameters.
Passthrough(data) == Without(data, {"messages", "system", "stream"})

(* ------------------------------ state --------------------------------- *)

VARIABLES
    adapter,    \* "ready" once VertexClaudeClient() has been constructed, else "failed"
    client,     \* claude_client.client: the identity of the current session object
    tools,      \* claude_client.tools
    model,      \* claude_client.model
    refreshes,  \* refresh_token calls made so far
    req,        \* per inbound request: the handler's and the generator's state
    health,     \* the answer to a GET /health probe
    direct      \* the last call made on the adapter by a caller other than the handler

vars == <<adapter, client, tools, model, refreshes, req, health, direct>>

\* Tool lists add_tools is called with.
ToolLists == {<<>>, <<"get_weather">>}

\* What the stubbed upstream streams back for each request, in order.
UpstreamFragments(r) ==
    IF r = "r1" THEN <<"Hel", "lo", " wor", "ld">>
    ELSE <<"Bon", "jour", " le", " monde">>

\* A request nobody has sent yet. frags are the fragments the upstream has
\* delivered to this request, upstream what its create call did, trace the
\* order of the generator's yields and of its dealings with the upstream
\* ("call", "enter", "next", "exit").
NoRequest ==
    [pc |-> "idle", body |-> NoBody, status |-> 0, error |-> "", warned |-> FALSE,
     content |-> "", kwargs |-> EmptyDict, system_prompt |-> None,
     events |-> <<>>, accumulated_text |-> "", calls |-> <<>>, upstream |-> "",
     frags |-> <<>>, trace |-> <<>>]

(* ------------------ VertexClaudeClient (the adapter) ------------------ *)

\* Python truthiness of an optional string.
Truthy(s) == s \notin {None, ""}

\* BuildKwargs with the extra parameters merged unfiltered.
BuildKwargsUnfiltered(prompt, max_tokens, system_prompt, kwargs) ==
    LET k1 == Merge([max_tokens |-> max_tokens,
                     messages |-> <<[role |-> "user", content |-> prompt]>>,
                     model |-> model],
                    kwargs)
        k2 == IF Truthy(system_prompt) THEN Merge(k1, [system |-> system_prompt]) ELSE k1
    IN  IF tools # <<>> THEN Merge(k2, [tools |-> tools]) ELSE k2

\* BuildKwargs with model among the keys it drops.
BuildKwargsReservingModel(prompt, max_tokens, system_prompt, kwargs) ==
    LET k1 == Merge([max_tokens |-> max_tokens,
                     messages |-> <<[role |-> "user", content |-> prompt]>>,
                     model |-> model],
                    Without(kwargs, {"messages", "system", "model"}))
        k2 == IF Truthy(system_prompt) THEN Merge(k1, [system |-> system_prompt]) ELSE k1
    IN  IF tools # <<>> THEN Merge(k2, [tools |-> tools]) ELSE k2

\* Lines 152-163: the keyword arguments handed to the upstream client.
BuildKwargs(prompt, max_tokens, system_prompt, kwargs) ==
    LET k1 == Merge([max_tokens |-> max_tokens,
                     messages |-> <<[role |-> "user", content |-> prompt]>>,
                     model |-> model],
                    Without(kwargs, {"messages", "system"}))
        k2 == IF Truthy(system_prompt) THEN Merge(k1, [system |-> system_prompt]) ELSE k1
    IN  IF tools # <<>> THEN Merge(k2, [tools |-> tools]) ELSE k2

\* Calling create_message(prompt=..., system_prompt=..., [stream=True,] **kwargs):
\* a keyword given twice is a TypeError before the body runs.
BindingFails(kwargs) == DOMAIN kwargs \cap {"prompt", "system_prompt"} # {}

\* Lines 143-170: the upstream invocation the adapter makes, on the session
\* it holds at the time of the call.
AdapterCall(op, prompt, system_prompt, kwargs) ==
    [op |-> op,
     client |-> client,
     kwargs |-> BuildKwargs(prompt, Get(kwargs, "max_tokens", DefaultMaxTokens),
                            system_prompt, Without(kwargs, {"max_tokens"}))]

(* --------------------- POST /v1/messages: the handler ------------------ *)

\* return jsonify({'error': error}), status
Respond(q, status, error) ==
    [q EXCEPT !.pc = "responded", !.status = status, !.error = error]

\* What the upstream create call can do: return a message of text blocks,
\* raise, or return a message holding a block without a text attribute.
CreateOutcomes == {"ok", "error", "nontext"}

\* SendMessage issuing the upstream call again after it failed.
SendMessageRetrying(q, content, system_prompt, kwargs, out) ==
    IF BindingFails(kwargs)
    THEN Respond(q, 500, "got multiple values for keyword argument")
    ELSE LET call == AdapterCall("create", content, system_prompt, kwargs)
             q1 == [q EXCEPT !.calls = Append(@, call), !.upstream = out]
         IN  IF out = "error"
             THEN Respond([q1 EXCEPT !.calls = Append(@, call)], 500, "upstream error")
             ELSE IF out = "nontext"
             THEN Respond(q1, 500, "object has no attribute 'text'")
             ELSE Respond(q1, 200, "")

\* SendMessage with the upstream call outside the try block.
SendMessageUncaught(q, content, system_prompt, kwargs, out) ==
    IF BindingFails(kwargs)
    THEN Respond(q, 500, "got multiple values for keyword argument")
    ELSE LET q1 == [q EXCEPT !.calls =
                        Append(@, AdapterCall("create", content, system_prompt, kwargs)),
                             !.upstream = out]
         IN  IF out = "error" THEN [q1 EXCEPT !.pc = "unhandled"]
             ELSE IF out = "nontext"
             THEN Respond(q1, 500, "object has no attribute 'text'")
             ELSE Respond(q1, 200, "")

\* Lines 309-338: the non-streaming call and the mapping of its result.
SendMessage(q, content, system_prompt, kwargs, out) ==
    IF BindingFails(kwargs)
    THEN Respond(q, 500, "got multiple values for keyword argument")
    ELSE LET q1 == [q EXCEPT !.calls =
                        Append(@, AdapterCall("create", content, system_prompt, kwargs)),
                             !.upstream = out]
         IN  IF out = "error" THEN Respond(q1, 500, "upstream error")
             ELSE IF out = "nontext"
             THEN Respond(q1, 500, "object has no attribute 'text'")
             ELSE Respond(q1, 200, "")

\* Line 179: request.json. Without a JSON content type it gives None on a
\* Werkzeug that still returns None there (legacy) and raises an HTTPException
\* (an Exception) on a later one.
RequestJsonRaises(body, legacy) == body.json = "absent" /\ ~legacy

\* Lines 177-338: the handler. A streaming request returns the 200
\* event-stream response with generate() not yet run.
\* first_message taken from the end of the list.
last_message(messages) == messages[Len(messages)]

\* Line 203: first_message = messages[0].
first_message(messages) == messages[1]

create_message(q0, body, legacy, out) ==
    LET q == [q0 EXCEPT !.body = body]
    IN  IF RequestJsonRaises(body, legacy)
        THEN Respond(q, 500, "415 Unsupported Media Type")
        ELSE IF body.json # "object" \/ DOMAIN body.obj = {}
        THEN Respond(q, 400, "No JSON data provided")
        ELSE
        LET resolved == ResolveModel(body.obj)
            data == Merge(body.obj, [model |-> resolved.model])
            qw == [q EXCEPT !.warned = resolved.warned]
            stream == Get(data, "stream", FALSE)
            messages == Get(data, "messages", <<>>)
        IN  IF Len(messages) = 0
            THEN Respond(qw, 400, "No messages provided")
            ELSE
            LET norm == NormalizeContent(first_message(messages))
                kwargs == Passthrough(data)
                system_prompt == Get(data, "system", None)
            IN  IF norm.kind = "invalid"
                THEN Respond(qw, 400, "Invalid message content format")
                ELSE IF norm.kind = "raise"
                THEN Respond(qw, 500, norm.content)
                ELSE
                LET qk == [qw EXCEPT !.content = norm.content, !.kwargs = kwargs,
                                     !.system_prompt = system_prompt]
                IN  IF stream
                    THEN [qk EXCEPT !.pc = "new", !.status = 200]
                    ELSE SendMessage(qk, norm.content, system_prompt, kwargs, out)

\* Lines 56-86: the log_request wrapper. It reads request.json when the
\* request is JSON, outside any try/except: a body that does not parse
\* raises BadRequest there, which the framework answers with 400 without
\* running the handler.
decorated_function(q, body, legacy, out) ==
    IF body.json = "unparseable"
    THEN Respond([q EXCEPT !.body = body], 400, "Bad Request")
    ELSE create_message(q, body, legacy, out)

\* Handle refreshing the token by itself when the upstream call failed.
HandleAutoRefreshing(r) ==
    /\ adapter = "ready"
    /\ req[r].pc = "idle"
    /\ \E body \in Bodies, legacy \in BOOLEAN, out \in CreateOutcomes :
        LET q == decorated_function(req[r], body, legacy, out)
        IN  /\ req' = [req EXCEPT ![r] = q]
            /\ client' = IF q.upstream = "error" THEN client + 1 ELSE client
    /\ UNCHANGED <<adapter, tools, model, refreshes, health, direct>>

\* An inbound POST /v1/messages is handled.
Handle(r) ==
    /\ adapter = "ready"
    /\ req[r].pc = "idle"
    /\ \E body \in Bodies, legacy \in BOOLEAN, out \in CreateOutcomes :
            req' = [req EXCEPT ![r] = decorated_function(req[r], body, legacy, out)]
    /\ UNCHANGED <<adapter, client, tools, model, refreshes, health, direct>>

(* --------------------- generate(): the event stream -------------------- *)

message_start ==
    [type |-> "message_start", role |-> "assistant", model |-> MODEL, usage |-> <<1, 1>>]
block_start == [type |-> "content_block_start", index |-> 0, text |-> ""]
delta(chunk) == [type |-> "content_block_delta", index |-> 0, text |-> chunk]
block_stop == [type |-> "content_block_stop", index |-> 0]
message_delta(accumulated_text) ==
    [type |-> "message_delta", stop_reason |-> "end_turn", text |-> accumulated_text,
     usage |-> <<100, 150>>]
message_stop == [type |-> "message_stop"]

\* yield: the event is handed to the consumer and the generator suspends at pc.
Yield(q, event, pc) ==
    [q EXCEPT !.events = Append(@, event), !.trace = Append(@, "yield"), !.pc = pc]

Note(q, what) == [q EXCEPT !.trace = Append(@, what)]

\* Leaving the with block (line 257): the stream manager's __exit__ closes
\* the upstream connection.
ExitStream(q) == Note(q, "exit")

\* OnChunk with = for += on the accumulator.
OnChunkOverwriting(q, chunk) ==
    Yield([q EXCEPT !.accumulated_text = chunk], delta(chunk), "y_delta")

\* OnChunk collecting the fragment without yielding it.
OnChunkBuffering(q, chunk) ==
    [q EXCEPT !.accumulated_text = @ \o chunk, !.pc = "y_delta"]

\* OnChunk with the delta carrying the text so far instead of the fragment.
OnChunkCumulative(q, chunk) ==
    Yield([q EXCEPT !.accumulated_text = @ \o chunk],
          delta(q.accumulated_text \o chunk), "y_delta")

\* Lines 259-270: one fragment of the for loop.
OnChunk(q, chunk) ==
    Yield([q EXCEPT !.accumulated_text = @ \o chunk], delta(chunk), "y_delta")

\* Lines 272-277: after the with block.
AfterStream(q) == Yield(q, block_stop, "y_block_stop")

\* What asking text_stream for its next fragment can give.
FetchOutcomes == {"fragment", "exhausted", "error"}

CanDeliver(r, q) ==
    Len(q.frags) < MaxFrags /\ Len(q.frags) < Len(UpstreamFragments(r))

\* Fetch with an upstream error answered by the terminal events.
FetchRecovering(r, q0, out) ==
    LET q == Note(q0, "next")
        chunk == UpstreamFragments(r)[Len(q.frags) + 1]
    IN  IF out = "fragment" THEN OnChunk([q EXCEPT !.frags = Append(@, chunk)], chunk)
        ELSE AfterStream(ExitStream(q))

\* Line 258: the for loop asks text_stream for the next fragment.
Fetch(r, q0, out) ==
    LET q == Note(q0, "next")
        chunk == UpstreamFragments(r)[Len(q.frags) + 1]
    IN  IF out = "fragment" THEN OnChunk([q EXCEPT !.frags = Append(@, chunk)], chunk)
        ELSE IF out = "exhausted" THEN AfterStream(ExitStream(q))
        ELSE [ExitStream(q) EXCEPT !.pc = "raised"]

\* Lines 218-235: the consumer's first pull.
GenStart(r) ==
    /\ req[r].pc = "new"
    /\ req' = [req EXCEPT ![r] = Yield(@, message_start, "y_message_start")]
    /\ UNCHANGED <<adapter, client, tools, model, refreshes, health, direct>>

\* Lines 237-246.
GenBlockStart(r) ==
    /\ req[r].pc = "y_message_start"
    /\ req' = [req EXCEPT ![r] = Yield(@, block_start, "y_block_start")]
    /\ UNCHANGED <<adapter, client, tools, model, refreshes, health, direct>>

\* OpenStream with a failure to open answered by an error response.
OpenStreamAnswering(r, q, open, out) ==
    IF BindingFails(q.kwargs) THEN [q EXCEPT !.pc = "raised"]
    ELSE LET q1 == Note([q EXCEPT !.calls =
                            Append(@, AdapterCall("stream", q.content,
                                                  q.system_prompt, q.kwargs))],
                        "call")
         IN  IF open = "error" THEN Respond(q1, 500, "upstream error")
             ELSE Fetch(r, Note(q1, "enter"), out)

\* Lines 249-258: the adapter call, entering the with block, the first fetch.
OpenStream(r, q, open, out) ==
    IF BindingFails(q.kwargs) THEN [q EXCEPT !.pc = "raised"]
    ELSE LET q1 == Note([q EXCEPT !.calls =
                            Append(@, AdapterCall("stream", q.content,
                                                  q.system_prompt, q.kwargs))],
                        "call")
         IN  IF open = "error" THEN [q1 EXCEPT !.pc = "raised"]
             ELSE Fetch(r, Note(q1, "enter"), out)

\* What the upstream did in this pull, as the upstream saw it.
Observed(q, open, out) ==
    [q EXCEPT !.upstream = IF BindingFails(q.kwargs) THEN ""
                           ELSE IF open = "error" THEN "error" ELSE out]

GenOpen(r) ==
    /\ req[r].pc = "y_block_start"
    /\ \E open \in {"ok", "error"}, out \in FetchOutcomes :
        /\ out = "fragment" => CanDeliver(r, req[r])
        /\ req' = [req EXCEPT ![r] = OpenStream(r, Observed(@, open, out), open, out)]
    /\ UNCHANGED <<adapter, client, tools, model, refreshes, health, direct>>

\* Resuming after a content_block_delta: the next turn of the for loop.
GenNext(r) ==
    /\ req[r].pc = "y_delta"
    /\ \E out \in FetchOutcomes :
        /\ out = "fragment" => CanDeliver(r, req[r])
        /\ req' = [req EXCEPT ![r] = Fetch(r, Observed(@, "ok", out), out)]
    /\ UNCHANGED <<adapter, client, tools, model, refreshes, health, direct>>

\* Lines 279-292.
GenMessageDelta(r) ==
    /\ req[r].pc = "y_block_stop"
    /\ req' = [req EXCEPT ![r] =
                Yield(@, message_delta(@.accumulated_text), "y_message_delta")]
    /\ UNCHANGED <<adapter, client, tools, model, refreshes, health, direct>>

\* Lines 294-298.
GenMessageStop(r) ==
    /\ req[r].pc = "y_message_delta"
    /\ req' = [req EXCEPT ![r] = Yield(@, message_stop, "y_message_stop")]
    /\ UNCHANGED <<adapter, client, tools, model, refreshes, health, direct>>

\* The pull after message_stop: generate() returns.
GenReturn(r) ==
    /\ req[r].pc = "y_message_stop"
    /\ req' = [req EXCEPT ![r].pc = "finished"]
    /\ UNCHANGED <<adapter, client, tools, model, refreshes, health, direct>>

\* Where generate() can be suspended.
Suspended ==
    {"new", "y_message_start", "y_block_start", "y_delta", "y_block_stop",
     "y_message_delta", "y_message_stop"}

\* CloseGenerator with the stream iterated outside any with block.
CloseGeneratorLeaking(q) == [q EXCEPT !.pc = "closed"]

\* The consumer goes away: the server closes the generator, GeneratorExit is
\* raised at the yield it is suspended on and unwinds the with block if inside.
CloseGenerator(q) ==
    [(IF q.pc = "y_delta" THEN ExitStream(q) ELSE q) EXCEPT !.pc = "closed"]

\* Cancel closing every suspended generator, not only the request's own.
CancelClosingAll(r) ==
    /\ req[r].pc \in Suspended
    /\ req' = [x \in Reqs |-> IF req[x].pc \in Suspended THEN CloseGenerator(req[x])
                                                         ELSE req[x]]
    /\ UNCHANGED <<adapter, client, tools, model, refreshes, health, direct>>

Cancel(r) ==
    /\ req[r].pc \in Suspended
    /\ req' = [req EXCEPT ![r] = CloseGenerator(@)]
    /\ UNCHANGED <<adapter, client, tools, model, refreshes, health, direct>>

(* --------------------- adapter operations ------------------------------ *)

\* Lines 122-133: the credential flow; a fresh session object, or it raises.
InitializeClient(ok) == IF ok THEN [raised |-> FALSE, client |-> client + 1]
                        ELSE [raised |-> TRUE, client |-> client]

\* refresh_token closing the session it replaces, and with it the streams
\* opened on it.
refresh_token_closing ==
    /\ adapter = "ready"
    /\ refreshes < MaxRefresh
    /\ \E ok \in BOOLEAN :
        LET new == InitializeClient(ok)
        IN  /\ client' = IF new.raised THEN client ELSE new.client
            /\ req' = [r \in Reqs |->
                        IF ~new.raised /\ req[r].pc = "y_delta"
                        THEN [ExitStream(req[r]) EXCEPT !.pc = "raised"]
                        ELSE req[r]]
    /\ refreshes' = refreshes + 1
    /\ UNCHANGED <<adapter, tools, model, health, direct>>

\* refresh_token dropping the old session before the credential flow runs.
refresh_token_clearing ==
    /\ adapter = "ready"
    /\ refreshes < MaxRefresh
    /\ \E ok \in BOOLEAN :
        LET new == InitializeClient(ok)
        IN  client' = IF new.raised THEN 0 ELSE new.client
    /\ refreshes' = refreshes + 1
    /\ UNCHANGED <<adapter, tools, model, req, health, direct>>

\* Lines 135-137.
refresh_token ==
    /\ adapter = "ready"
    /\ refreshes < MaxRefresh
    /\ \E ok \in BOOLEAN :
        LET new == InitializeClient(ok)
        IN  client' = IF new.raised THEN client ELSE new.client
    /\ refreshes' = refreshes + 1
    /\ UNCHANGED <<adapter, tools, model, req, health, direct>>

\* Lines 139-141.
add_tools(ts) ==
    /\ adapter = "ready"
    /\ tools' = ts
    /\ UNCHANGED <<adapter, client, model, refreshes, req, health, direct>>

(* --------------------- GET /health --------------------------------------- *)

\* No probe was sent yet.
NoProbe == [asked |-> FALSE, status |-> 0, body |-> ""]

\* Lines 340-344. The route exists only once the module has loaded: when
\* the construction of line 173 raised, nothing answers the probe.
health_check ==
    /\ ~health.asked
    /\ health' = IF adapter = "ready"
                 THEN [asked |-> TRUE, status |-> 200, body |-> "healthy"]
                 ELSE [asked |-> TRUE, status |-> 0, body |-> ""]
    /\ UNCHANGED <<adapter, client, tools, model, refreshes, req, direct>>

(* --------------------- the adapter called directly ----------------------- *)

\* No direct call was made yet. kw, refreshes and tools are what the caller
\* gave and what the adapter held when the call was made.
NoDirect == [made |-> FALSE, kw |-> EmptyDict, refreshes |-> 0, tools |-> <<>>,
             call |-> [op |-> "", client |-> 0, kwargs |-> EmptyDict]]

\* The keyword arguments a caller gives create_message besides the prompt.
Keywords ==
    {EmptyDict,
     [temperature |-> 1],
     [max_tokens |-> 64, top_k |-> 5],
     [system_prompt |-> "be brief", stream |-> TRUE],
     [stream |-> TRUE, temperature |-> 1],
     [model |-> "other-model"],
     [messages |-> <<[role |-> "assistant", content |-> "injected"]>>],
     [system |-> "injected"],
     [system_prompt |-> "be brief", system |-> "injected", temperature |-> 1],
     [tools |-> <<"caller_tool">>],
     [messages |-> <<[role |-> "assistant", content |-> "injected"]>>,
      system |-> "injected", model |-> "other-model", stream |-> TRUE]}

\* Lines 143-170 for a call create_message("Hello", **kw): max_tokens,
\* system_prompt and stream bind to the named parameters, the rest is **kwargs.
Invoke(prompt, kw) ==
    AdapterCall(IF Get(kw, "stream", FALSE) THEN "stream" ELSE "create",
                prompt, Get(kw, "system_prompt", None),
                Without(kw, {"system_prompt", "stream"}))

\* A caller holding the adapter sends or streams a message.
adapter_call ==
    /\ adapter = "ready"
    /\ \E kw \in Keywords :
        direct' = [made |-> TRUE, kw |-> kw, refreshes |-> refreshes, tools |-> tools,
                   call |-> Invoke("Hello", kw)]
    /\ UNCHANGED <<adapter, client, tools, model, refreshes, req, health>>

(* --------------------- the system --------------------------------------- *)

\* Init with __init__ swallowing the failure of the credential flow: the
\* object exists without a session.
InitSwallowing ==
    /\ adapter = "ready"
    /\ client \in {0, 1}
    /\ tools = <<>>
    /\ model = MODEL
    /\ refreshes = 0
    /\ req = [r \in Reqs |-> NoRequest]
    /\ health = NoProbe
    /\ direct = NoDirect

\* Line 173: the module-level construction; when it raises the module does
\* not load and no route is served.
Init ==
    /\ \E ok \in BOOLEAN :
        /\ adapter = IF ok THEN "ready" ELSE "failed"
        /\ client = IF ok THEN 1 ELSE 0
    /\ tools = <<>>
    /\ model = MODEL
    /\ refreshes = 0
    /\ req = [r \in Reqs |-> NoRequest]
    /\ health = NoProbe
    /\ direct = NoDirect

Next ==
    \/ \E r \in Reqs : Handle(r)
    \/ \E r \in Reqs : GenStart(r)
    \/ \E r \in Reqs : GenBlockStart(r)
    \/ \E r \in Reqs : GenOpen(r)
    \/ \E r \in Reqs : GenNext(r)
    \/ \E r \in Reqs : GenMessageDelta(r)
    \/ \E r \in Reqs : GenMessageStop(r)
    \/ \E r \in Reqs : GenReturn(r)
    \/ \E r \in Reqs : Cancel(r)
    \/ refresh_token
    \/ \E ts \in ToolLists : add_tools(ts)

Spec == Init /\ [][Next]_vars

\* The adapter on its own: its operations called directly.
AdapterNext ==
    \/ adapter_call
    \/ refresh_token
    \/ \E ts \in ToolLists : add_tools(ts)

AdapterSpec == Init /\ [][AdapterNext]_vars

\* One inbound request next to the health probe and the adapter's operations.
HealthNext ==
    \/ health_check
    \/ Handle("r1")
    \/ GenStart("r1")
    \/ GenBlockStart("r1")
    \/ GenOpen("r1")
    \/ GenNext("r1")
    \/ GenMessageDelta("r1")
    \/ GenMessageStop("r1")
    \/ GenReturn("r1")
    \/ Cancel("r1")
    \/ refresh_token
    \/ \E ts \in ToolLists : add_tools(ts)

HealthSpec == Init /\ [][HealthNext]_vars

(* ------------------------------ properties ----------------------------- *)

Count(seq, x) == Cardinality({i \in DOMAIN seq : seq[i] = x})

Types(events) == [i \in DOMAIN events |-> events[i].type]

Repeat(x, n) == [i \in 1..n |-> x]

\* The positions of the trace at which x happened.
At(q, x) == {i \in DOMAIN q.trace : q.trace[i] = x}

Before(q, x, i) == Cardinality({j \in At(q, x) : j < i})

\* C1: a stream read to the end after the upstream delivered f1..fn without
\* error has emitted exactly message_start, content_block_start, one
\* content_block_delta per fragment carrying that fragment in order,
\* content_block_stop, message_delta, message_stop; nothing follows
\* message_stop.
C1_Lifecycle ==
    \A r \in Reqs :
        LET q == req[r]
            n == Len(q.frags)
        IN  /\ \A i \in DOMAIN q.events :
                    q.events[i].type = "message_stop" => i = Len(q.events)
            /\ q.upstream = "exhausted" /\ q.pc = "finished" =>
                /\ Types(q.events) =
                        <<"message_start", "content_block_start">>
                        \o Repeat("content_block_delta", n)
                        \o <<"content_block_stop", "message_delta", "message_stop">>
                /\ \A i \in 1..n : q.events[2 + i].text = UpstreamFragments(r)[i]
                /\ Count(q.trace, "next") = n + 1

C1_Witness ==
    /\ req["r1"].pc = "finished" /\ Len(req["r1"].frags) = 2
    /\ req["r2"].pc = "finished" /\ Len(req["r2"].frags) = 0

\* C2: the upstream connection is released exactly once on every exit path
\* (exhaustion, consumer cancellation, upstream error mid-stream), never
\* before it is opened, never twice, it is not open once the generator has
\* ended, and on exhaustion the release comes after the last fragment was
\* asked for and before content_block_stop is emitted.
C2_ReleasedOnce ==
    \A r \in Reqs :
        LET q == req[r]
            opened == Count(q.trace, "enter")
            released == Count(q.trace, "exit")
        IN  /\ opened <= 1 /\ released <= opened
            /\ \A i \in At(q, "exit") : \E j \in At(q, "enter") : j < i
            /\ opened > released => q.pc = "y_delta"
            /\ q.pc \in {"finished", "raised", "closed"} => released = opened
            /\ \A k \in DOMAIN q.events :
                    q.events[k].type = "content_block_stop" =>
                        \E i \in At(q, "exit") :
                            /\ \A j \in At(q, "next") : j < i
                            /\ Before(q, "yield", i) = k - 1

C2_Witness ==
    /\ req["r1"].pc = "closed" /\ Len(req["r1"].frags) = 1
    /\ Count(req["r1"].trace, "exit") = 1
    /\ req["r2"].pc = "raised" /\ Len(req["r2"].frags) = 1
    /\ Count(req["r2"].trace, "exit") = 1

\* C3: when the upstream raises after k fragments the stream ends
\* truncated: the events are message_start, content_block_start and the k
\* content_block_delta of the fragments delivered, and no content_block_stop,
\* message_delta or message_stop.
C3_Truncated ==
    \A r \in Reqs :
        LET q == req[r]
            k == Len(q.frags)
        IN  q.upstream = "error" /\ q.pc # "responded" =>
                /\ q.pc = "raised"
                /\ Types(q.events) = <<"message_start", "content_block_start">>
                                     \o Repeat("content_block_delta", k)
                /\ \A i \in 1..k : q.events[2 + i].text = UpstreamFragments(r)[i]

C3_Witness ==
    /\ req["r1"].upstream = "error" /\ Len(req["r1"].frags) = 1
    /\ Count(req["r1"].trace, "enter") = 1
    /\ req["r2"].upstream = "error" /\ Count(req["r2"].trace, "next") = 1

\* The cases of a body the spec calls a validation failure: no parsed JSON
\* object, messages missing or empty, or a first message whose content is
\* neither a string nor a list.
FirstContentKind(body) == Get(Get(body.obj, "messages", <<>>)[1], "content", CNone).kind

BadContent(body) ==
    /\ body.json = "object"
    /\ Len(Get(body.obj, "messages", <<>>)) > 0
    /\ FirstContentKind(body) \notin {"str", "list"}

InvalidBody(body) ==
    \/ body.json # "object"
    \/ Len(Get(body.obj, "messages", <<>>)) = 0
    \/ BadContent(body)

\* C4: a request whose body is absent or unparseable, whose messages are
\* missing or empty, or whose first content is neither string nor list is
\* answered 400 (with "Invalid message content format" in the last case)
\* and the upstream is never invoked for it.
C4_Validation400 ==
    \A r \in Reqs :
        LET q == req[r]
        IN  q.pc # "idle" /\ InvalidBody(q.body) =>
                /\ q.pc = "responded" /\ q.status = 400
                /\ q.calls = <<>>
                /\ BadContent(q.body) => q.error = "Invalid message content format"

RECURSIVE Concat(_)
Concat(texts) == IF Len(texts) = 0 THEN "" ELSE Head(texts) \o Concat(Tail(texts))

IsDelta(event) == event.type = "content_block_delta"

\* The texts of the content_block_delta events among the first n events.
DeltaTexts(events, n) ==
    LET ds == SelectSeq(SubSeq(events, 1, n), IsDelta)
    IN  [i \in 1..Len(ds) |-> ds[i].text]

\* C5: message_delta carries the concatenation, in order, of the texts of
\* the content_block_delta events before it ("" when there are none) with
\* stop_reason "end_turn", and at every point the accumulator is the
\* concatenation of the fragments received so far.
C5_Accumulated ==
    \A r \in Reqs :
        LET q == req[r]
        IN  /\ q.accumulated_text =
                    Concat([i \in 1..Len(q.frags) |-> UpstreamFragments(r)[i]])
            /\ \A i \in DOMAIN q.events :
                    q.events[i].type = "message_delta" =>
                        /\ q.events[i].text = Concat(DeltaTexts(q.events, i - 1))
                        /\ q.events[i].stop_reason = "end_turn"

C5_Witness ==
    /\ \E i \in DOMAIN req["r1"].events :
            /\ req["r1"].events[i].type = "message_delta"
            /\ req["r1"].events[i].text = "Hello"
    /\ \E i \in DOMAIN req["r2"].events :
            /\ req["r2"].events[i].type = "message_delta"
            /\ req["r2"].events[i].text = ""
    /\ Len(req["r1"].frags) = 2 /\ Len(req["r2"].frags) = 0

\* C6: at most one event is handed over per pull, and every fragment is
\* asked for only after message_start, content_block_start and the
\* content_block_delta of every earlier fragment were handed to the consumer.
C6_NoBuffering ==
    \A r \in Reqs :
        LET q == req[r]
        IN  /\ Count(q.trace, "yield") = Len(q.events)
            /\ \A i \in At(q, "next") :
                    /\ Before(q, "yield", i) >= 2 + Before(q, "next", i)
                    /\ Types(q.events)[1] = "message_start"
                    /\ Types(q.events)[2] = "content_block_start"
                    /\ \A m \in 1..Before(q, "next", i) :
                            /\ q.events[2 + m].type = "content_block_delta"
                            /\ q.events[2 + m].text = UpstreamFragments(r)[m]

C6_Witness ==
    /\ req["r1"].pc = "y_delta"
    /\ Count(req["r1"].trace, "next") = 2
    /\ Len(req["r1"].events) = 4

\* C7: a non-streaming request that passes validation is answered 200 only
\* when nothing failed; every failure, an error raised by the upstream
\* call included, is answered 500 with the error's message, and none
\* leaves the handler unanswered.
C7_Failure500 ==
    \A r \in Reqs :
        LET q == req[r]
        IN  /\ q.pc # "idle"
            /\ ~InvalidBody(q.body)
            /\ ~Get(q.body.obj, "stream", FALSE)
            =>  /\ q.pc = "responded" /\ q.status \in {200, 500}
                /\ q.status = 200 <=> q.upstream = "ok"
                /\ q.status = 500 => q.error # ""
                /\ q.upstream = "error" => q.error = "upstream error"
                /\ Len(q.calls) <= 1

C7_Witness ==
    /\ req["r1"].status = 500 /\ req["r1"].upstream = "error"
    /\ ~Get(req["r1"].body.obj, "stream", FALSE)
    /\ req["r2"].status = 500 /\ req["r2"].calls = <<>>
    /\ ~InvalidBody(req["r2"].body) /\ ~Get(req["r2"].body.obj, "stream", FALSE)

\* The events of a stream of n fragments that ran to its end.
FullTypes(n) ==
    <<"message_start", "content_block_start">> \o Repeat("content_block_delta", n)
    \o <<"content_block_stop", "message_delta", "message_stop">>

\* A step in which the adapter's session is replaced.
Refreshed == client' # client

\* C8: replacing the session leaves every stream as it was (its fragments
\* delivered, its connection, its position), a stream opened on an earlier
\* session that is read to the end has the full event sequence of all its
\* fragments, and every upstream call is made on the session the adapter
\* holds when the call starts, the new one once a refresh has completed.
C8_RefreshKeepsStreams ==
    /\ [][Refreshed => req' = req /\ client' > client]_vars
    /\ [][\A r \in Reqs :
            Len(req'[r].calls) > Len(req[r].calls) =>
                req'[r].calls[Len(req'[r].calls)].client = client]_vars
    /\ [](\A r \in Reqs :
            LET q == req[r]
            IN  /\ q.pc = "finished"
                /\ q.upstream = "exhausted"
                /\ q.calls[1].client # client
                =>  /\ Types(q.events) = FullTypes(Len(q.frags))
                    /\ DeltaTexts(q.events, Len(q.events)) =
                         [i \in 1..Len(q.frags) |-> UpstreamFragments(r)[i]])

C8_Witness ==
    /\ req["r1"].pc = "y_delta" /\ Len(req["r1"].frags) = 1
    /\ req["r1"].calls[1].client = 1 /\ client = 2
    /\ req["r2"].pc = "y_delta" /\ req["r2"].calls[1].client = 2

\* The table of the spec: the two sonnet aliases give the primary
\* identifier, the two haiku aliases the secondary one, anything else the
\* primary one.
ExpectedUpstream(alias) ==
    CASE alias = "claude-3-sonnet-20240229" -> MODEL
      [] alias = "claude-3-7-sonnet-20250219" -> MODEL
      [] alias = "claude-3-haiku-20240307" -> HAIKU_MODEL
      [] alias = "claude-3-5-haiku-20241022" -> HAIKU_MODEL
      [] OTHER -> MODEL

Recognized(alias) ==
    alias \in {"claude-3-sonnet-20240229", "claude-3-7-sonnet-20250219",
               "claude-3-haiku-20240307", "claude-3-5-haiku-20241022"}

\* C9: for every request with a JSON object the alias resolves per the
\* table, an unrecognized or missing alias resolves to the primary
\* identifier with a warning, and resolution is never the cause of an error:
\* an otherwise valid request reaches the upstream and is answered 200 when
\* the upstream succeeds.
C9_AliasResolution ==
    \A r \in Reqs :
        LET q == req[r]
            alias == Get(q.body.obj, "model", None)
        IN  q.pc # "idle" /\ q.body.json = "object" /\ DOMAIN q.body.obj # {} =>
                /\ q.warned = ~Recognized(alias)
                /\ "model" \in DOMAIN q.kwargs => q.kwargs.model = ExpectedUpstream(alias)
                /\ Get(q.body.obj, "messages", <<>>) = Hi
                   /\ DOMAIN q.body.obj \subseteq {"model", "messages"} =>
                        /\ Len(q.calls) = 1
                        /\ q.kwargs.model = ExpectedUpstream(alias)
                        /\ q.status = 200 <=> q.upstream = "ok"

C9_Witness ==
    /\ req["r1"].body = Obj([messages |-> Hi])
    /\ req["r1"].status = 200 /\ req["r1"].warned
    /\ req["r1"].kwargs.model = MODEL
    /\ req["r2"].body = Obj([model |-> "claude-3-5-haiku-20241022", messages |-> Hi])
    /\ req["r2"].status = 200 /\ ~req["r2"].warned
    /\ req["r2"].kwargs.model = HAIKU_MODEL

\* The prompt of a list of parts, built left to right: the texts of the
\* parts tagged "text", a single space between two of them.
RECURSIVE PromptFrom(_, _, _)
PromptFrom(parts, sofar, any) ==
    IF Len(parts) = 0 THEN sofar
    ELSE IF Get(Head(parts), "type", None) # "text"
    THEN PromptFrom(Tail(parts), sofar, any)
    ELSE PromptFrom(Tail(parts),
                    IF any THEN sofar \o " " \o Head(parts).text ELSE Head(parts).text,
                    TRUE)

ExpectedPrompt(c) == IF c.kind = "str" THEN c.str ELSE PromptFrom(c.parts, "", FALSE)

FirstContent(body) == body.obj.messages[1].content

\* C10: the prompt sent upstream is the first message's string unchanged,
\* or the texts of its parts tagged "text", in order, joined by single
\* spaces, the other parts dropped without a separator ("hello" plus a
\* non-text part gives "hello"; "a", "b" give "a b").
C10_ForwardedPrompt ==
    \A r \in Reqs :
        LET q == req[r]
        IN  \A i \in DOMAIN q.calls :
                LET sent == q.calls[i].kwargs.messages
                    c == FirstContent(q.body)
                IN  /\ Len(sent) = 1
                    /\ sent[1].content = ExpectedPrompt(c)
                    /\ c.parts = <<TextPart("hello"), ImagePart>> =>
                            sent[1].content = "hello"
                    /\ c.parts = <<TextPart("a"), TextPart("b")>> =>
                            sent[1].content = "a b"

C10_Witness ==
    /\ Len(req["r1"].calls) = 1 /\ Len(req["r2"].calls) = 1
    /\ FirstContent(req["r1"].body) = CList(<<TextPart("hello"), ImagePart>>)
    /\ req["r1"].calls[1].kwargs.messages[1].content = "hello"
    /\ FirstContent(req["r2"].body) =
            CList(<<ImagePart, TextPart("a"), ImagePart, TextPart("b")>>)
    /\ req["r2"].calls[1].kwargs.messages[1].content = "a b"

\* C11: for every inbound request the upstream create/stream operation is
\* invoked at most once, also when it fails: a failed call is answered 500
\* (or ends the stream) with that one call made, never issued again.
C11_NoRetry ==
    \A r \in Reqs :
        LET q == req[r]
        IN  /\ Len(q.calls) <= 1
            /\ Count(q.trace, "call") <= 1 /\ Count(q.trace, "enter") <= 1
            /\ q.upstream = "error" =>
                /\ Len(q.calls) = 1
                /\ q.pc \in {"responded", "raised"}
                /\ q.pc = "responded" => q.status = 500 /\ q.error = "upstream error"

C11_Witness ==
    /\ req["r1"].pc = "responded" /\ req["r1"].upstream = "error"
    /\ Len(req["r1"].calls) = 1 /\ req["r1"].status = 500
    /\ req["r2"].pc = "raised" /\ req["r2"].upstream = "error"
    /\ Len(req["r2"].calls) = 1 /\ Count(req["r2"].trace, "enter") = 0

\* A step that is a refresh_token call.
RefreshStep == refreshes' # refreshes

\* C12: the session changes only in a refresh_token call: no handling of a
\* request (answered, failed or cancelled), no add_tools and no direct call
\* changes it, and nothing but an explicit call counts as a refresh.
C12_SessionOnlyByRefresh ==
    /\ [][client' # client => RefreshStep /\ req' = req /\ tools' = tools]_vars
    /\ [][req' # req \/ tools' # tools \/ direct' # direct \/ health' # health =>
            client' = client /\ ~RefreshStep]_vars

C12_Witness ==
    /\ req["r1"].pc = "responded" /\ req["r1"].upstream = "error"
    /\ req["r2"].pc = "closed" /\ Count(req["r2"].trace, "exit") = 1
    /\ tools # <<>>
    /\ client = 1 /\ refreshes = 0

\* C13: when the construction fails (credential file missing or malformed,
\* token request failing) there is no session and the adapter is never
\* usable: no send, stream, add_tools or refresh_token is ever performed on
\* it, and every call that is performed runs on a session.
C13_FailedConstruction ==
    /\ client = 0 <=> adapter = "failed"
    /\ adapter = "failed" =>
        /\ ~direct.made
        /\ tools = <<>>
        /\ refreshes = 0
        /\ \A r \in Reqs : req[r].pc = "idle"
    /\ direct.made => direct.call.client >= 1

C13_Witness == adapter = "failed" /\ client = 0 /\ ~direct.made /\ ~ENABLED AdapterNext

\* C14: a GET /health is answered 200 {"status": "healthy"} in every state
\* of the system, when the credential could not be loaded included, and
\* answering it makes no upstream call.
C14_HealthAlways ==
    health.asked => health.status = 200 /\ health.body = "healthy"

\* The parameters of a direct call that are not create_message's own
\* system_prompt and stream.
ExtraKeys(kw) == DOMAIN kw \ {"system_prompt", "stream"}

\* What the adapter builds from its own arguments, whatever the extras.
OwnParts(d) ==
    /\ d.call.kwargs.messages = <<[role |-> "user", content |-> "Hello"]>>
    /\ IF Truthy(Get(d.kw, "system_prompt", None))
       THEN Get(d.call.kwargs, "system", None) = d.kw.system_prompt
       ELSE "system" \notin DOMAIN d.call.kwargs
    /\ d.call.op = IF Get(d.kw, "stream", FALSE) THEN "stream" ELSE "create"
    /\ DOMAIN d.call.kwargs \cap {"stream", "system_prompt"} = {}

\* C15: the adapter forwards every extra parameter whose key is outside
\* {messages, system, model, stream}; one whose key is in that set is never
\* forwarded and never overrides the message list, the system prompt, the
\* configured model or the streaming mode.
C15_ReservedKeys ==
    direct.made =>
        /\ \A k \in ExtraKeys(direct.kw) \ {"messages", "system", "model"} :
                k \in DOMAIN direct.call.kwargs /\ direct.call.kwargs[k] = direct.kw[k]
        /\ OwnParts(direct)
        /\ direct.call.kwargs.model = model

\* C15 as amended: model is not reserved. Every extra parameter whose key
\* is outside {messages, system} is forwarded, model included, which then
\* replaces the configured model (tools is replaced by the configured tool
\* list when there is one); messages and system are never forwarded and
\* never override the message list or the system prompt; stream only
\* selects the streaming mode.
C15_ReservedKeysAmended ==
    direct.made =>
        /\ \A k \in ExtraKeys(direct.kw) \ {"messages", "system"} :
                /\ k \in DOMAIN direct.call.kwargs
                /\ direct.call.kwargs[k] =
                        IF k = "tools" /\ direct.tools # <<>> THEN direct.tools
                        ELSE direct.kw[k]
        /\ OwnParts(direct)
        /\ direct.call.kwargs.model = Get(direct.kw, "model", model)

C15_Witness ==
    /\ direct.made
    /\ DOMAIN direct.kw = {"messages", "system", "model", "stream"}
    /\ direct.call.kwargs.model = "other-model"
    /\ direct.call.kwargs.messages[1].content = "Hello"
    /\ direct.call.op = "stream"
    /\ direct.tools # <<>>

\* Two bodies that agree on every field and on the first message, and may
\* differ in the messages after it.
AgreeButTail(b1, b2) ==
    /\ Without(b1.obj, {"messages"}) = Without(b2.obj, {"messages"})
    /\ b1.obj.messages[1] = b2.obj.messages[1]

\* The upstream request of a call, less the tool list, which is the
\* adapter's and not the request's.
UpstreamRequest(call) == [op |-> call.op, kwargs |-> Without(call.kwargs, {"tools"})]

\* C16: only the first message is consumed. Two requests that agree on
\* every field and on messages[0] send the same upstream request whatever
\* follows messages[0], and every upstream request holds exactly one
\* message, with role "user" and the normalized prompt as content.
C16_OnlyFirstMessage ==
    /\ \A r \in Reqs : \A i \in DOMAIN req[r].calls :
            LET prompt == ExpectedPrompt(FirstContent(req[r].body))
            IN  req[r].calls[i].kwargs.messages = <<[role |-> "user", content |-> prompt]>>
    /\ \A ra \in Reqs : \A rb \in Reqs :
            (/\ Len(req[ra].calls) = 1 /\ Len(req[rb].calls) = 1
             /\ AgreeButTail(req[ra].body, req[rb].body))
            => UpstreamRequest(req[ra].calls[1]) = UpstreamRequest(req[rb].calls[1])

C16_Witness ==
    /\ Len(req["r1"].calls) = 1 /\ Len(req["r2"].calls) = 1
    /\ AgreeButTail(req["r1"].body, req["r2"].body)
    /\ Len(req["r1"].body.obj.messages) = 1
    /\ req["r2"].body.obj.messages = <<Msg(CStr("hi")), Msg(CStr("more"))>>
    /\ req["r2"].calls[1].kwargs.messages = <<[role |-> "user", content |-> "hi"]>>
    /\ req["r1"].calls[1].kwargs.temperature = 1

\* C17: for every valid request, streaming or not, the model carried by
\* the upstream call is the identifier resolved from the request's alias
\* (HAIKU_MODEL for the haiku aliases, MODEL otherwise), whatever model the
\* adapter was constructed with.
C17_UpstreamModel ==
    \A r \in Reqs : \A i \in DOMAIN req[r].calls :
        LET alias == Get(req[r].body.obj, "model", None)
            sent == req[r].calls[i].kwargs.model
        IN  /\ sent = ExpectedUpstream(alias)
            /\ alias \in {"claude-3-haiku-20240307", "claude-3-5-haiku-20241022"} =>
                    sent = HAIKU_MODEL /\ sent # model
            /\ req[r].calls[i].op = IF Get(req[r].body.obj, "stream", FALSE)
                                    THEN "stream" ELSE "create"

C17_Witness ==
    /\ Len(req["r1"].calls) = 1 /\ Len(req["r2"].calls) = 1
    /\ Get(req["r1"].body.obj, "model", None) = "claude-3-haiku-20240307"
    /\ req["r1"].calls[1].op = "stream"
    /\ req["r1"].calls[1].kwargs.model = HAIKU_MODEL
    /\ Get(req["r2"].body.obj, "model", None) = "claude-3-5-haiku-20241022"
    /\ req["r2"].calls[1].op = "create"
    /\ req["r2"].calls[1].kwargs.model = HAIKU_MODEL
    /\ model = MODEL

\* The first n fragments of request r's own upstream.
OwnFragments(r, n) == SubSeq(UpstreamFragments(r), 1, n)

\* Everything request r has emitted and accumulated comes from its own
\* upstream, and it has released at most the one connection it opened.
OwnOnly(r) ==
    LET q == req[r]
        texts == DeltaTexts(q.events, Len(q.events))
    IN  /\ Len(texts) <= Len(q.frags)
        /\ texts = OwnFragments(r, Len(texts))
        /\ q.accumulated_text = Concat(OwnFragments(r, Len(q.frags)))
        /\ \A i \in DOMAIN q.events :
                q.events[i].type = "message_delta" =>
                    q.events[i].text = Concat(OwnFragments(r, Len(q.frags)))
        /\ Count(q.trace, "exit") <= Count(q.trace, "enter")
        /\ Count(q.trace, "enter") <= 1

\* A step of one request leaves every other request as it was, and leaves
\* the adapter's session, tool list and model as they were.
RequestStepIsLocal ==
    /\ \A r \in Reqs : req'[r] # req[r] => \A o \in Reqs \ {r} : req'[o] = req[o]
    /\ req' # req => client' = client /\ tools' = tools /\ model' = model

\* C18: concurrent requests are handled independently. Under every
\* interleaving each request's events and accumulator hold only its own
\* upstream fragments (its message_delta text is their concatenation), each
\* request releases only its own upstream connection, and handling a
\* request leaves the adapter's session, tool list and model unchanged.
C18_Independent == [](\A r \in Reqs : OwnOnly(r)) /\ [][RequestStepIsLocal]_vars

C18_Witness ==
    /\ req["r1"].pc = "finished"
    /\ \E i \in DOMAIN req["r1"].events :
            /\ req["r1"].events[i].type = "message_delta"
            /\ req["r1"].events[i].text = "Hello"
    /\ Count(req["r1"].trace, "exit") = 1
    /\ req["r2"].pc = "y_delta"
    /\ DeltaTexts(req["r2"].events, Len(req["r2"].events)) = <<"Bon">>
    /\ Count(req["r2"].trace, "enter") = 1 /\ Count(req["r2"].trace, "exit") = 0
    /\ client = 1 /\ tools = <<>> /\ model = MODEL

\* The upstream stream of request q failed to open: the call was made and
\* the with block never entered.
OpenFailed(q) ==
    /\ Len(q.calls) = 1 /\ q.calls[1].op = "stream"
    /\ q.upstream = "error"
    /\ Count(q.trace, "enter") = 0

\* C19: in the streaming path the upstream stream is opened only after
\* message_start and content_block_start were emitted. A failure to open it
\* is never answered 500: the response is a 200 event stream cut after
\* exactly those two events. A consumer that goes away before reading past
\* content_block_start causes no upstream call.
C19_LazyOpen ==
    \A r \in Reqs :
        LET q == req[r]
        IN  /\ \A i \in At(q, "call") :
                    q.calls[1].op = "stream" =>
                        /\ Before(q, "yield", i) = 2
                        /\ SubSeq(Types(q.events), 1, 2) =
                                <<"message_start", "content_block_start">>
            /\ OpenFailed(q) =>
                    /\ q.status = 200 /\ q.pc = "raised"
                    /\ Types(q.events) = <<"message_start", "content_block_start">>
            /\ q.pc = "closed" /\ Len(q.events) <= 2 =>
                    q.calls = <<>> /\ Count(q.trace, "call") = 0

C19_Witness ==
    /\ OpenFailed(req["r1"])
    /\ req["r1"].status = 200 /\ Len(req["r1"].events) = 2
    /\ req["r2"].pc = "closed" /\ Len(req["r2"].events) = 2
    /\ req["r2"].calls = <<>>

\* A refresh either fails and keeps the session it had, or succeeds and
\* installs a whole new one; the tool list, the model and the adapter
\* itself stay as they were.
RefreshKeepsOrReplaces ==
    RefreshStep =>
        /\ client' \in {client, client + 1}
        /\ client >= 1 /\ client' >= 1
        /\ tools' = tools /\ model' = model
        /\ adapter' = "ready"

\* C20: a refresh_token call that fails leaves the previous session, the
\* tool list and the model unchanged and the adapter usable on the old
\* session: the session is replaced only by a credential flow that ran to
\* its end, and is never empty, so every later call goes out on a session
\* that some credential flow produced.
C20_FailedRefreshKeepsSession ==
    /\ [][RefreshKeepsOrReplaces]_vars
    /\ [](adapter = "ready" => client \in 1..(1 + refreshes))
    /\ [](direct.made => direct.call.client \in 1..(1 + direct.refreshes))

C20_Witness ==
    /\ refreshes = 1 /\ client = 1
    /\ direct.made /\ direct.refreshes = 1
    /\ direct.call.client = 1
    /\ direct.tools # <<>> /\ direct.call.kwargs.tools = direct.tools

====
